---- MODULE Spec2Model ----
(***************************************************************************)
(* Model of the two webhook handlers of the repository:                    *)
(*   lambda_router.lambda_handler   (inbound message events)               *)
(*   lambda_actions.lambda_handler  (button-click callbacks)               *)
(* and of the `cases` table both reach through the RDS Data API.           *)
(*                                                                         *)
(* Every SQL statement is one atomic step of the store.  A router          *)
(* invocation is a sequence of steps (one per store or agent call), an     *)
(* action invocation holds a single store call and is one step after its   *)
(* payload has been parsed.  Invocations run concurrently in slots.        *)
(***************************************************************************)
EXTENDS Integers, Sequences, FiniteSets, TLC

(* ------------------------------ bounds -------------------------------- *)
\* invocations and direct store operations started in one behaviour
MaxOps == 2

\* slots in which invocations run concurrently
RouterSlots == {1, 2}
ActionSlots == {1}

(* ------------------------------ domains ------------------------------- *)
\* message timestamps; a thread's root timestamp is the case id
CaseIds == {"T1", "T2"}
Users == {"U1", "U2"}
\* dict.get / Optional results
None == "None"
\* the empty string
Empty == ""

Statuses == {"pending", "confirmed", "adjusted", "escalated"}

\* A message text, as the sequence of its tokens.  kind "client" is the
\* span matched by  client[:\s]+([A-Za-z0-9\s]+) , "at" by @([A-Za-z0-9]+),
\* "tag" by #([A-Za-z0-9]+); "word" matches none.
TextABC == << [kind |-> "client", val |-> "ABC Corp"] >>
TextHello == << [kind |-> "word", val |-> "hello"] >>
Texts == {TextABC}

\* per-process seed of str hashing (PYTHONHASHSEED)
HashSeeds == {"s1"}

\* decodable agent completions (response_body); << >> is the empty object
AgentBodies ==
    { << >>,
      [missing_fields |-> <<"budget">>, recommended_tags |-> <<"urgent">>],
      [missing_fields |-> <<"timeline">>,
       competitive_analysis |-> [summary |-> "ahead"],
       citations |-> <<"doc-1">>,
       follow_up_questions |-> <<"when?">>] }

\* dict.get(key, default)
Get(d, key, default) == IF key \in DOMAIN d THEN d[key] ELSE default

(* -------------------------- json conversions -------------------------- *)
\* json.dumps(x): the JSON text of x, a str
Dumps(x) == [json |-> x]
\* json.loads(s)
Loads(s) == s.json
\* A str json.loads rejects (JSONDecodeError), and the test for it.
NotJson == [text |-> "{"]
IsJson(s) == "json" \in DOMAIN s

(* ------------------------------ the store ----------------------------- *)
\* No row of table cases has this case_id.
NoRow ==
    [exists |-> FALSE, client_id |-> <<>>, status |-> Empty,
     updated_by |-> Empty, client_data |-> <<>>, tags |-> <<>>,
     missing_fields |-> <<>>, conversation |-> <<>>]

\* The row a WHERE case_id = :cid selects.
Row(st, cid) == IF cid \in DOMAIN st THEN st[cid] ELSE NoRow

VARIABLES
    store,      \* table cases: case_id -> row, or NoRow
    rt,         \* router invocation slots
    ac,         \* action invocation slots
    ops,        \* operations started so far
    sv          \* the save_case_data call under observation, or << >>

vars == << store, rt, ac, ops, sv >>

\* Outcome of one rds-data execute_statement call.
DbOutcomes == {"ok", "error"}

(* ---------------- lambda_router.DatabaseManager ----------------------- *)

\* execute_query: the response, or {} when the call raised.
\* The response of a SELECT is its records; {} and an empty result are both
\* "no records".
EmptyResponse == [ok |-> FALSE, records |-> <<>>]

\* Variant: the SELECT has no WHERE clause, the first row of the table is
\* what the caller reads.
SelectStateAnyRow(st, cid, db) ==
    IF db = "ok" /\ \E c \in DOMAIN st : st[c].exists
    THEN LET c == CHOOSE c \in DOMAIN st : st[c].exists IN
         [ok |-> TRUE,
          records |-> << [mf |-> Dumps(st[c].missing_fields),
                          conv |-> Dumps(st[c].conversation)] >>]
    ELSE IF db = "ok" THEN [ok |-> TRUE, records |-> <<>>]
    ELSE EmptyResponse

\* SELECT missing_fields, conversation FROM cases WHERE case_id = :cid
SelectState(st, cid, db) ==
    IF db = "ok" /\ Row(st, cid).exists
    THEN [ok |-> TRUE,
          records |-> << [mf |-> Dumps(st[cid].missing_fields),
                          conv |-> Dumps(st[cid].conversation)] >>]
    ELSE IF db = "ok" THEN [ok |-> TRUE, records |-> <<>>]
    ELSE EmptyResponse

fetch_case_state(st, cid, db) ==
    LET response == SelectState(st, cid, db) IN
    IF response.ok /\ response.records # <<>>
    THEN [mf |-> Loads(response.records[1].mf),
          conv |-> Loads(response.records[1].conv)]
    ELSE [mf |-> <<>>, conv |-> <<>>]

\* SELECT ... FROM cases WHERE client_id = :cid ORDER BY updated_at DESC LIMIT 5
HistLimit == 5
MatchingCases(st, client) ==
    {c \in CaseIds : st[c].exists /\ st[c].client_id = client}
fetch_historical_cases(st, client, db) ==
    IF db # "ok" THEN {}
    ELSE LET S == MatchingCases(st, client) IN
         IF Cardinality(S) <= HistLimit THEN S
         ELSE CHOOSE T \in SUBSET S : Cardinality(T) = HistLimit

\* Variant: missing_fields = JSON_MERGE_PRESERVE(missing_fields, :mf), the
\* new checklist is added to the stored one.
persist_case_state_merge(st, cid, mf, new_msg, db) ==
    IF db = "ok" /\ Row(st, cid).exists
    THEN [st EXCEPT ![cid].missing_fields = @ \o Loads(Dumps(mf)),
                    ![cid].conversation = Append(@, Dumps(new_msg))]
    ELSE st

\* Variant: conversation = JSON_ARRAY(:new_msg), the column is replaced.
persist_case_state_replace(st, cid, mf, new_msg, db) ==
    IF db = "ok" /\ Row(st, cid).exists
    THEN [st EXCEPT ![cid].missing_fields = Loads(Dumps(mf)),
                    ![cid].conversation = << Dumps(new_msg) >>]
    ELSE st

\* Variant: conversation = JSON_SET(conversation, '$[0]', :new_msg), the
\* first element is written instead of a new one appended.
persist_case_state_set_first(st, cid, mf, new_msg, db) ==
    IF db = "ok" /\ Row(st, cid).exists
    THEN [st EXCEPT ![cid].missing_fields = Loads(Dumps(mf)),
                    ![cid].conversation =
                        IF @ = << >> THEN << Dumps(new_msg) >>
                        ELSE [@ EXCEPT ![1] = Dumps(new_msg)]]
    ELSE st

\* UPDATE cases SET missing_fields = :mf,
\*   conversation = JSON_ARRAY_APPEND(conversation, '$', :new_msg) ...
\*   WHERE case_id = :cid
\* An UPDATE changes the rows its WHERE matches: none when the case has no
\* row.  :new_msg is the str json.dumps(new_msg), appended as one element.
\* execute_query swallows a failure of the call.
persist_case_state(st, cid, mf, new_msg, db) ==
    IF db = "ok" /\ Row(st, cid).exists
    THEN [st EXCEPT ![cid].missing_fields = Loads(Dumps(mf)),
                    ![cid].conversation = Append(@, Dumps(new_msg))]
    ELSE st

(* ---------------- lambda_router: signature, transform ----------------- *)
SigningSecret == "secret"

\* Variant: a digest of the message alone, the key is not used.
HmacKeyless(key, msg) == << "hmac", msg >>

\* hmac.new(key, msg, sha256).hexdigest(), injective on the bounded inputs
Hmac(key, msg) == << "hmac", key, msg >>
\* 'v0=' + hexdigest of  v0:{timestamp}:{body}
ExpectedSignature(secret, timestamp, body) ==
    << "v0=", Hmac(secret, << "v0:", timestamp, ":", body >>) >>

\* Variant: no test for missing headers before the digest is compared.
verify_signature_unguarded(secret, body, headers) ==
    ExpectedSignature(secret, headers.timestamp, body) = headers.signature

\* A missing header reads as '' (headers.get(name, '')): here << >>.
verify_signature(secret, body, headers) ==
    IF headers.timestamp = Empty \/ headers.signature = << >>
    THEN FALSE
    ELSE ExpectedSignature(secret, headers.timestamp, body) = headers.signature

\* os.environ when the handler starts: every required name is set, or one is
\* missing (os.environ[...] raises KeyError).
Environments == {"configured", "missing"}

\* Decoded request bodies.
SlackEvents ==
    { [type |-> "url_verification", challenge |-> "challenge-1",
       text |-> << >>, user |-> Empty, ts |-> None, thread_ts |-> None] }
    \cup
    { e \in { [type |-> "event_callback", challenge |-> None,
               text |-> t, user |-> "U1", ts |-> ts, thread_ts |-> th] :
                 t \in Texts, ts \in CaseIds, th \in {None, "T1"} } :
        e.thread_ts # e.ts }

\* Request bodies: the JSON text of an event, or a str that is not JSON.
Bodies == { Dumps(e) : e \in SlackEvents } \cup {NotJson}

Timestamps == {Empty, "1700000000"}
Requests ==
    UNION { { [body |-> b, headers |-> [timestamp |-> t, signature |-> s]] :
                s \in { << >>,
                        ExpectedSignature(SigningSecret, t, b),
                        ExpectedSignature("forged", t, b) } } :
            b \in Bodies, t \in Timestamps }

\* re.search(pattern, text): the first token the pattern matches, or None
FirstOfKind(text, kind) ==
    IF \E i \in 1..Len(text) : text[i].kind = kind
    THEN text[CHOOSE i \in 1..Len(text) :
                /\ text[i].kind = kind
                /\ \A j \in 1..(i - 1) : text[j].kind # kind].val
    ELSE None

extract_client_id_with_regex(text) ==
    IF FirstOfKind(text, "client") # None THEN FirstOfKind(text, "client")
    ELSE IF FirstOfKind(text, "at") # None THEN FirstOfKind(text, "at")
    ELSE FirstOfKind(text, "tag")

extract_client_id_with_nlp(text) == None

\* hash(text) % 10000 under the process's hash seed; hash('') is 0
HashMod(text, seed) == IF text = << >> THEN << "0" >> ELSE << seed, text >>

\* if name: None and '' are both false
Truthy(name) == name # None /\ name # Empty

\* A client id is << prefix, value >>.
extract_client_id(text, seed) ==
    IF Truthy(extract_client_id_with_nlp(text))
    THEN << "", extract_client_id_with_nlp(text) >>
    ELSE IF Truthy(extract_client_id_with_regex(text))
    THEN << "", extract_client_id_with_regex(text) >>
    ELSE << "client_", HashMod(text, seed) >>

\* Variant: thread_ts = event.get('ts'), the thread root is not looked at.
transform_slack_message_own_ts(slack_event, seed) ==
    [client_id |-> extract_client_id(slack_event.text, seed),
     text |-> slack_event.text,
     user_id |-> slack_event.user,
     thread_ts |-> slack_event.ts,
     timestamp |-> slack_event.ts]

\* line 88: thread_ts = event.get('thread_ts') or event.get('ts')
transform_slack_message(slack_event, seed) ==
    [client_id |-> extract_client_id(slack_event.text, seed),
     text |-> slack_event.text,
     user_id |-> slack_event.user,
     thread_ts |-> IF slack_event.thread_ts # None
                   THEN slack_event.thread_ts ELSE slack_event.ts,
     timestamp |-> slack_event.ts]

(* ---------------- lambda_router.BedrockAgentInvoker ------------------- *)
\* The agent_input invoke_agent sends: built from the payload's text,
\* client_id, user_id and thread_ts keys only.
AgentInput(structured_payload) ==
    [input |-> [text |-> structured_payload.text,
                client_id |-> structured_payload.client_id,
                user_id |-> structured_payload.user_id],
     sessionId |-> << "session_", structured_payload.client_id, "_",
                      structured_payload.thread_ts >>]

\* lines 536-548: the argument of invoke_agent when prior state was read,
\* {**structured_payload, "agent_input": ..., "sessionId": thread_ts}
ResumedPayload(structured_payload, stored_mf, stored_conversation) ==
    [agent_input |->
        [new_message |-> structured_payload.text,
         context |-> [outstanding_fields |-> stored_mf,
                      history |-> stored_conversation]],
     sessionId |-> structured_payload.thread_ts] @@ structured_payload

\* response['completion'] of the agent call: the JSON text of a body, or a
\* str that is not JSON
Completions == { Dumps(b) : b \in AgentBodies } \cup {NotJson}

\* generated_content from a decoded response_body
GeneratedContent(response_body) ==
    [missing_fields_checklist |-> Get(response_body, "missing_fields", << >>),
     competitive_analysis |-> Get(response_body, "competitive_analysis", << >>),
     recommended_tags |-> Get(response_body, "recommended_tags", << >>),
     citations |-> Get(response_body, "citations", << >>),
     follow_up_questions |-> Get(response_body, "follow_up_questions", << >>)]

\* Variant: a completion that does not decode is read as the empty object.
invoke_agent_lenient(structured_payload, completion) ==
    [raised |-> None,
     request |-> AgentInput(structured_payload),
     value |-> IF IsJson(completion)
               THEN GeneratedContent(Loads(completion))
               ELSE GeneratedContent(<< >>)]

\* invoke_agent once the service has answered with this completion:
\* json.loads raises on a str that is not JSON and the except clause
\* re-raises; otherwise the five fields are extracted.
invoke_agent(structured_payload, completion) ==
    IF IsJson(completion)
    THEN [raised |-> None,
          request |-> AgentInput(structured_payload),
          value |-> GeneratedContent(Loads(completion))]
    ELSE [raised |-> "JSONDecodeError",
          request |-> AgentInput(structured_payload),
          value |-> << >>]

(* ---------------- lambda_router.SlackMessageBuilder ------------------- *)
\* A Block Kit block: the builder sets no block_id on any block.
Block(type) == [type |-> type, block_id |-> None]
Blocks(type, n) == [i \in 1..n |-> Block(type)]
Min(a, b) == IF a <= b THEN a ELSE b
MissingFieldsShown == 5
TagsShown == 3

build_missing_fields_section(missing_fields) ==
    << Block("section") >>
        \o Blocks("section", Min(Len(missing_fields), MissingFieldsShown))

build_tags_section(recommended_tags) ==
    << Block("section") >>
        \o Blocks("section", Min(Len(recommended_tags), TagsShown))

build_action_buttons == << Block("actions") >>

build_response_message(generated_content) ==
    << Block("header"), Block("section"), Block("divider") >>
    \o (IF generated_content.missing_fields_checklist # << >>
        THEN build_missing_fields_section(
                 generated_content.missing_fields_checklist)
        ELSE << >>)
    \o (IF generated_content.recommended_tags # << >>
        THEN build_tags_section(generated_content.recommended_tags)
        ELSE << >>)
    \o build_action_buttons
    \o (IF generated_content.citations # << >>
        THEN << Block("section") >> ELSE << >>)

build_historical_section(historical_cases) ==
    IF historical_cases = {} THEN << >>
    ELSE << Block("section") >>
         \o Blocks("section", Cardinality(historical_cases))
         \o << Block("divider") >>

(* ---------------- lambda_router.lambda_handler ------------------------ *)
Response(code, body) == [statusCode |-> code, body |-> body]
\* Variant: the body carries str(e).
InternalErrorWithDetail ==
    Response(500, << "error", "KeyError: 'SLACK_SIGNING_SECRET'" >>)

\* {'statusCode': 500, 'body': json.dumps({'error': 'Internal server error'})}
InternalError == Response(500, << "error", "Internal server error" >>)

\* A router slot: the invocation's position and locals.  persists lists its
\* persist_case_state calls, each with what the store did with it: db (the
\* statement's outcome), existed (the row was there), and what the
\* invocation had read before: fetch_db, seen (the conversation's length).
\* exc: the exception the handler's except clause caught, or None.  given:
\* the request and configuration the invocation was started with, where the
\* specification keeps them (SpecRequests).
RouterIdle ==
    [pc |-> "idle", given |-> << >>, payload |-> << >>, hist |-> {},
     fetch_db |-> None, smf |-> << >>, sconv |-> << >>, request |-> << >>,
     gen |-> << >>, persists |-> << >>, message |-> << >>, resp |-> << >>,
     exc |-> None, completion |-> << >>]

RouterDone(slot, resp) ==
    [RouterIdle EXCEPT !.pc = "done", !.resp = resp,
                       !.persists = slot.persists]

\* Variant: the exception is logged and the invocation answers 200.
RouterFailedQuietly(slot, exc) ==
    [RouterDone(slot, Response(200, << "Processing completed", None >>))
        EXCEPT !.exc = exc]

\* lines 580-582: except Exception
RouterFailed(slot, exc) ==
    [RouterDone(slot, InternalError) EXCEPT !.exc = exc]

Unauthorized == Response(401, << "error", "Unauthorized" >>)

\* Variant: the url_verification handshake is answered before the signature
\* is checked.
ReceiveChallengeFirst(env, secret, req, seed) ==
    IF env # "configured" THEN RouterFailed(RouterIdle, "KeyError")
    ELSE IF IsJson(req.body) /\ Loads(req.body).type = "url_verification"
    THEN RouterDone(RouterIdle,
                    Response(200, << Loads(req.body).challenge >>))
    ELSE IF ~verify_signature(secret, req.body, req.headers)
    THEN RouterDone(RouterIdle, Unauthorized)
    ELSE IF ~IsJson(req.body)
    THEN RouterFailed(RouterIdle, "JSONDecodeError")
    ELSE [RouterIdle EXCEPT
            !.pc = "hist",
            !.payload = transform_slack_message(Loads(req.body), seed)]

\* lines 503-530: components from os.environ, verify, parse,
\* url_verification, transform.  The slot the invocation is in afterwards.
\* Variant: the signature is not checked.
ReceiveUnverified(env, secret, req, seed) ==
    IF env # "configured" THEN RouterFailed(RouterIdle, "KeyError")
    ELSE IF ~IsJson(req.body)
    THEN RouterFailed(RouterIdle, "JSONDecodeError")
    ELSE IF Loads(req.body).type = "url_verification"
    THEN RouterDone(RouterIdle,
                    Response(200, << Loads(req.body).challenge >>))
    ELSE [RouterIdle EXCEPT
            !.pc = "hist",
            !.payload = transform_slack_message(Loads(req.body), seed)]

\* Variant: the agent is invoked right after the transform, before the
\* prior state is read.
ReceiveThenAgent(env, secret, req, seed) ==
    IF env # "configured" THEN RouterFailed(RouterIdle, "KeyError")
    ELSE IF ~verify_signature(secret, req.body, req.headers)
    THEN RouterDone(RouterIdle, Unauthorized)
    ELSE IF ~IsJson(req.body)
    THEN RouterFailed(RouterIdle, "JSONDecodeError")
    ELSE IF Loads(req.body).type = "url_verification"
    THEN RouterDone(RouterIdle,
                    Response(200, << Loads(req.body).challenge >>))
    ELSE [RouterIdle EXCEPT
            !.pc = "agent",
            !.payload = transform_slack_message(Loads(req.body), seed)]

Receive(env, secret, req, seed) ==
    IF env # "configured" THEN RouterFailed(RouterIdle, "KeyError")
    ELSE IF ~verify_signature(secret, req.body, req.headers)
    THEN RouterDone(RouterIdle, Unauthorized)
    ELSE IF ~IsJson(req.body)
    THEN RouterFailed(RouterIdle, "JSONDecodeError")
    ELSE IF Loads(req.body).type = "url_verification"
    THEN RouterDone(RouterIdle,
                    Response(200, << Loads(req.body).challenge >>))
    ELSE [RouterIdle EXCEPT
            !.pc = "hist",
            !.payload = transform_slack_message(Loads(req.body), seed)]

RouterReceive(r) ==
    /\ rt[r].pc \in {"idle", "done"}
    /\ ops < MaxOps
    /\ \E env \in Environments, req \in Requests, seed \in HashSeeds :
         rt' = [rt EXCEPT ![r] = Receive(env, SigningSecret, req, seed)]
    /\ ops' = ops + 1
    /\ UNCHANGED << store, ac, sv >>

\* line 532
RouterFetchHistorical(r) ==
    /\ rt[r].pc = "hist"
    /\ \E db \in DbOutcomes :
         rt' = [rt EXCEPT ![r].pc = "state",
                          ![r].hist = fetch_historical_cases(
                                          store, rt[r].payload.client_id, db)]
    /\ UNCHANGED << store, ac, ops, sv >>

\* line 534; case_id = thread_ts (line 530)
RouterFetchState(r) ==
    /\ rt[r].pc = "state"
    /\ \E db \in DbOutcomes :
         LET got == fetch_case_state(store, rt[r].payload.thread_ts, db) IN
         rt' = [rt EXCEPT ![r].pc = "agent",
                          ![r].fetch_db = db,
                          ![r].smf = got.mf,
                          ![r].sconv = got.conv]
    /\ UNCHANGED << store, ac, ops, sv >>

\* lines 536-550: both branches end in invoke_agent, which builds its own
\* agent_input from the payload (AgentInput); the service call raises
\* (ClientError), or answers with a completion that invoke_agent decodes.
RouterInvokeAgent(r) ==
    /\ rt[r].pc = "agent"
    /\ \/ rt' = [rt EXCEPT ![r] = RouterFailed(rt[r], "AgentError")]
       \/ \E completion \in Completions :
            LET got == invoke_agent(
                           IF rt[r].smf # << >> \/ rt[r].sconv # << >>
                           THEN ResumedPayload(rt[r].payload, rt[r].smf,
                                               rt[r].sconv)
                           ELSE rt[r].payload,
                           completion)
            IN  rt' = [rt EXCEPT ![r] =
                         IF got.raised # None
                         THEN [RouterFailed(rt[r], got.raised) EXCEPT
                                 !.completion = completion]
                         ELSE [rt[r] EXCEPT !.pc = "persist",
                                            !.request = got.request,
                                            !.gen = got.value,
                                            !.completion = completion]]
    /\ UNCHANGED << store, ac, ops, sv >>

\* Variant: the checklist is never persisted.
ShouldPersistNever(generated_content) == FALSE

\* Variant: persist_case_state is called whatever the checklist.
ShouldPersistAlways(generated_content) == TRUE

\* line 553: if generated_content.get('missing_fields_checklist')
ShouldPersist(generated_content) ==
    generated_content.missing_fields_checklist # << >>

\* lines 553-579: persist when the checklist is not empty, build the
\* message, answer 200
RouterPersist(r) ==
    /\ rt[r].pc = "persist"
    /\ LET slot == rt[r]
           mf == slot.gen.missing_fields_checklist
           cid == slot.payload.thread_ts
           blocks == build_historical_section(slot.hist)
                        \o build_response_message(slot.gen)
           done(calls) ==
               [RouterIdle EXCEPT
                  !.pc = "done",
                  !.persists = calls,
                  !.message = [channel |-> Empty, thread_ts |-> cid,
                               blocks |-> blocks],
                  !.resp = Response(200, << "Processing completed", cid >>)]
       IN IF ShouldPersist(slot.gen)
          THEN \E db \in DbOutcomes :
                 /\ store' = persist_case_state(store, cid, mf,
                                                slot.payload, db)
                 /\ rt' = [rt EXCEPT ![r] =
                             done(<< [case_id |-> cid, missing_fields |-> mf,
                                      new_msg |-> slot.payload, db |-> db,
                                      existed |-> Row(store, cid).exists,
                                      fetch_db |-> slot.fetch_db,
                                      seen |-> Len(slot.sconv)] >>)]
          ELSE /\ store' = store
               /\ rt' = [rt EXCEPT ![r] = done(<< >>)]
    /\ UNCHANGED << ac, ops, sv >>

(* ---------------- lambda_actions: module scope ------------------------ *)
\* Whether the global name `log` is bound when a method of DatabaseManager,
\* SlackInteractionHandler, BriefGenerator or PDFGenerator runs.  The module
\* binds `logger` and `get_logger`; `log` is a local of lambda_handler only,
\* so `log.info(...)` in a method raises NameError.
log_defined == FALSE

\* What a call gives its caller: a value, or an exception.
Returned(v) == [raised |-> FALSE, value |-> v]
Raised == [raised |-> TRUE, value |-> None]
\* log.info(...) / log.error(...) in a method, then `return v`
LogThenReturn(v) == IF log_defined THEN Returned(v) ELSE Raised

(* ---------------- lambda_actions.DatabaseManager ---------------------- *)
\* Variant: the UPDATE has no WHERE clause, every row is written.
UpdateStatusEveryRow(st, case_id, status, user_id) ==
    [c \in DOMAIN st |->
        IF st[c].exists
        THEN [st[c] EXCEPT !.status = status, !.updated_by = user_id]
        ELSE st[c]]

\* Variant: the whole row is written back, with the checklist and the
\* conversation as they were when the case was created.
UpdateStatusWholeRow(st, case_id, status, user_id) ==
    IF Row(st, case_id).exists
    THEN [st EXCEPT ![case_id].status = status,
                    ![case_id].updated_by = user_id,
                    ![case_id].missing_fields = << >>,
                    ![case_id].conversation = << >>]
    ELSE st

\* UPDATE cases SET status = :status, updated_by = :user_id
\*   WHERE case_id = :case_id
UpdateStatusRows(st, case_id, status, user_id) ==
    IF Row(st, case_id).exists
    THEN [st EXCEPT ![case_id].status = status,
                    ![case_id].updated_by = user_id]
    ELSE st

\* The statement runs, then log.info and `return True`; on ClientError
\* log.error and `return False`.
update_case_status(st, case_id, status, user_id, db) ==
    IF db = "ok"
    THEN [store |-> UpdateStatusRows(st, case_id, status, user_id),
          result |-> LogThenReturn(TRUE)]
    ELSE [store |-> st, result |-> LogThenReturn(FALSE)]

\* An Optional[Dict]: << d >>, or << >> for None.
NoCase == << >>
get_case_data(st, case_id, db) ==
    IF db = "ok"
    THEN IF Row(st, case_id).exists
         THEN Returned(<< [case_id |-> case_id,
                        client_id |-> st[case_id].client_id,
                        status |-> st[case_id].status,
                        client_data |-> Loads(Dumps(st[case_id].client_data)),
                        tags |-> Loads(Dumps(st[case_id].tags)),
                        missing_fields |->
                            Loads(Dumps(st[case_id].missing_fields))] >>)
         ELSE Returned(NoCase)
    ELSE LogThenReturn(NoCase)

\* INSERT ... ON DUPLICATE KEY UPDATE status, client_data, tags,
\* missing_fields.  A new row takes the columns the INSERT does not name
\* from the table: conversation starts as the empty JSON array.
UpsertRow(st, case_data) ==
    IF st[case_data.case_id].exists
    THEN [st EXCEPT ![case_data.case_id].status = case_data.status,
                    ![case_data.case_id].client_data =
                        Loads(Dumps(case_data.client_data)),
                    ![case_data.case_id].tags = Loads(Dumps(case_data.tags)),
                    ![case_data.case_id].missing_fields =
                        Loads(Dumps(case_data.missing_fields))]
    ELSE [st EXCEPT ![case_data.case_id] =
            [exists |-> TRUE,
             client_id |-> case_data.client_id,
             status |-> case_data.status,
             updated_by |-> Empty,
             client_data |-> Loads(Dumps(case_data.client_data)),
             tags |-> Loads(Dumps(case_data.tags)),
             missing_fields |-> Loads(Dumps(case_data.missing_fields)),
             conversation |-> << >>]]

\* The keys the parameter list reads with case_data[...] (lines 142-149).
SaveFields ==
    {"case_id", "client_id", "status", "client_data", "tags", "missing_fields"}

\* The parameter list is built inside the try: a key the dict lacks raises
\* KeyError, which `except ClientError` does not catch, before any statement
\* is sent.  Otherwise the statement runs, then log.info and `return True`;
\* on ClientError log.error and `return False`.
save_case_data(st, case_data, db) ==
    IF ~(SaveFields \subseteq DOMAIN case_data)
    THEN [store |-> st, result |-> Raised]
    ELSE IF db = "ok"
    THEN [store |-> UpsertRow(st, case_data), result |-> LogThenReturn(TRUE)]
    ELSE [store |-> st, result |-> LogThenReturn(FALSE)]

(* ---------------- lambda_actions.SlackInteractionHandler -------------- *)
\* The modal view is built, log.info, `return True`; `except Exception`
\* runs log.error, which raises again when `log` is unbound.
open_adjust_conditions_modal(trigger_id, case_data) == LogThenReturn(TRUE)

send_confirmation_message(channel, thread_ts, action) == LogThenReturn(TRUE)

(* ---------------- lambda_actions.BriefGenerator, PDFGenerator --------- *)
generate_planner_brief(case_data) ==
    [type |-> "planner",
     content |-> [client_id |-> case_data.client_id,
                  tag_suggestions |-> case_data.tags,
                  missing_fields |-> case_data.missing_fields],
     template |-> "planner_brief_template.md"]

generate_manager_brief(case_data) ==
    [type |-> "manager",
     content |-> [client_id |-> case_data.client_id],
     template |-> "manager_brief_template.md"]

\* brief_content['client_id'] and brief_content['type'] are read: KeyError
\* when the content has no such key, re-raised by the except clause.
generate_pdf(brief_content, template_name) ==
    IF {"client_id", "type"} \subseteq DOMAIN brief_content
    THEN LogThenReturn(<< "briefs/", brief_content.client_id,
                          brief_content.type >>)
    ELSE Raised

(* ---------------- lambda_actions.lambda_handler ----------------------- *)
ActionIds ==
    {"confirm_correct", "adjust_conditions", "push_to_planner",
     "remind_later", "complete_data", "unknown_action"}

\* What one dispatch did: the store after it, the response, the
\* update_case_status calls made, the get_case_data calls made, the
\* confirmation messages sent, the modals opened and the documents rendered.
Outcome(st, resp, upd, reads, sent, modals, pdfs) ==
    [store |-> st, resp |-> resp, upd |-> upd, reads |-> reads,
     sent |-> sent, modals |-> modals, pdfs |-> pdfs, exc |-> None]

\* lines 575-580: an exception of the branch reaches the handler's
\* except clause after the branch did what it did.
Caught(st, upd, reads, sent, modals, pdfs) ==
    [Outcome(st, InternalError, upd, reads, sent, modals, pdfs)
        EXCEPT !.exc = "Exception"]

ActionProcessed == Response(200, << "Action processed" >>)

\* lines 507-511
ConfirmCorrect(st, inv, db) ==
    LET u == update_case_status(st, inv.case_id, "confirmed", inv.user_id, db)
        call == << [case_id |-> inv.case_id, status |-> "confirmed",
                    user_id |-> inv.user_id, result |-> u.result] >>
        m == send_confirmation_message(Empty, Empty, "Confirmed as Correct")
    IN  IF u.result.raised
        THEN Caught(u.store, call, 0, 0, 0, 0)
        ELSE IF u.result.value
        THEN IF m.raised
             THEN Caught(u.store, call, 0, 0, 0, 0)
             ELSE Outcome(u.store, Response(200, << "Case confirmed" >>),
                          call, 0, IF m.value THEN 1 ELSE 0, 0, 0)
        ELSE Outcome(u.store, ActionProcessed, call, 0, 0, 0, 0)

\* Variant: opening the form marks the case, status = 'adjusted'.
OpenModalAdjusts(st, inv, db, body) ==
    Outcome(IF db = "ok" /\ Row(st, inv.case_id).exists
            THEN [st EXCEPT ![inv.case_id].status = "adjusted"] ELSE st,
            Response(200, << body >>), << >>, 1, 0, 1, 0)

\* lines 513-521 and 558-567
OpenModal(st, inv, db, body) ==
    LET g == get_case_data(st, inv.case_id, db)
        m == open_adjust_conditions_modal(Empty, g.value[1])
    IN  IF g.raised THEN Caught(st, << >>, 1, 0, 0, 0)
        ELSE IF g.value # NoCase
        THEN IF m.raised THEN Caught(st, << >>, 1, 0, 0, 0)
             ELSE IF m.value
             THEN Outcome(st, Response(200, << body >>), << >>, 1, 0, 1, 0)
             ELSE Outcome(st, ActionProcessed, << >>, 1, 0, 0, 0)
        ELSE Outcome(st, ActionProcessed, << >>, 1, 0, 0, 0)

\* lines 523-543
PushToPlanner(st, inv, db) ==
    LET g == get_case_data(st, inv.case_id, db)
        planner_brief == generate_planner_brief(g.value[1])
        manager_brief == generate_manager_brief(g.value[1])
        planner_pdf == generate_pdf(planner_brief.content,
                                    planner_brief.template)
        manager_pdf == generate_pdf(manager_brief.content,
                                    manager_brief.template)
    IN  IF g.raised THEN Caught(st, << >>, 1, 0, 0, 0)
        ELSE IF g.value # NoCase
        THEN IF planner_pdf.raised
             THEN Caught(st, << >>, 1, 0, 0, 0)
             ELSE IF manager_pdf.raised
             THEN Caught(st, << >>, 1, 0, 0, 1)
             ELSE Outcome(st, Response(200, << "Briefs generated" >>),
                          << >>, 1, 0, 0, 2)
        ELSE Outcome(st, ActionProcessed, << >>, 1, 0, 0, 0)

\* Variant: the reminder is recorded on the case, status = 'snoozed'.
RemindLaterRecorded(st, inv, db) ==
    Outcome(IF db = "ok" /\ Row(st, inv.case_id).exists
            THEN [st EXCEPT ![inv.case_id].status = "snoozed"] ELSE st,
            Response(200, << "Remind later acknowledged" >>),
            << >>, 1, 0, 0, 0)

\* lines 546-556
RemindLater(st, inv, db) ==
    LET g == get_case_data(st, inv.case_id, db)
        m == send_confirmation_message(Empty, Empty, "remind")
    IN  IF g.raised THEN Caught(st, << >>, 1, 0, 0, 0)
        ELSE IF g.value # NoCase
        THEN IF m.raised THEN Caught(st, << >>, 1, 0, 0, 0)
             ELSE Outcome(st,
                          Response(200, << "Remind later acknowledged" >>),
                          << >>, 1, IF m.value THEN 1 ELSE 0, 0, 0)
        ELSE Outcome(st, ActionProcessed, << >>, 1, 0, 0, 0)

\* Variant: no else branch, an unknown action_id falls through to line 573.
UnknownActionFallsThrough(st, inv, db) ==
    Outcome(st, ActionProcessed, << >>, 0, 0, 0, 0)

\* lines 569-571
UnknownAction(st, inv, db) ==
    Outcome(st, Response(400, << "Unknown action" >>), << >>, 0, 0, 0, 0)

\* lines 506-580: the dispatch table inside the handler's try/except
Dispatch(st, inv, db) ==
    IF inv.action_id = "confirm_correct" THEN ConfirmCorrect(st, inv, db)
    ELSE IF inv.action_id = "adjust_conditions"
    THEN OpenModal(st, inv, db, "Modal opened")
    ELSE IF inv.action_id = "push_to_planner" THEN PushToPlanner(st, inv, db)
    ELSE IF inv.action_id = "remind_later" THEN RemindLater(st, inv, db)
    ELSE IF inv.action_id = "complete_data"
    THEN OpenModal(st, inv, db, "Pre-filled modal opened")
    ELSE UnknownAction(st, inv, db)

\* Whether the branch of this action_id makes a store call.
CallsStore(action_id) ==
    action_id \in {"confirm_correct", "adjust_conditions", "push_to_planner",
                   "remind_later", "complete_data"}

\* An action slot: the parsed payload, then what the dispatch did (the
\* clicking user is kept in the update_case_status call only).  found: the
\* case had a row when the branch ran; db: the outcome of its store call;
\* from_router, built_for: the clicked message was built by the router for
\* that case.
ActionIdle ==
    [pc |-> "idle", action_id |-> Empty, user_id |-> Empty,
     case_id |-> Empty, from_router |-> FALSE, built_for |-> None,
     found |-> FALSE, db |-> None, resp |-> << >>, upd |-> << >>,
     reads |-> 0, sent |-> 0, modals |-> 0, pdfs |-> 0, exc |-> None]

\* Messages a click can refer to: one a router invocation built, as Slack
\* delivers it back, or any other message of the channel.
BuiltMessages ==
    { rt[r].message : r \in { q \in RouterSlots : rt[q].message # << >> } }
OtherMessages ==
    { [channel |-> Empty, thread_ts |-> None,
       blocks |-> << [type |-> "section", block_id |-> c] >>] : c \in CaseIds }

\* line 502: blocks[0].get('block_id', '')
BlockIdOf(message) ==
    IF message.blocks[1].block_id = None THEN Empty
    ELSE message.blocks[1].block_id

\* What stops the handler before the dispatch: a required name missing from
\* os.environ (lines 482-489), a body or payload json.loads rejects
\* (lines 492-493).
ReceiveFailures == {"KeyError", "JSONDecodeError"}

\* Variant: the handler checks the request's signature as the router does
\* and turns away a request that fails the check.
ActionReceiveVerified(a) ==
    /\ ac[a].pc \in {"idle", "done"}
    /\ ops < MaxOps
    /\ \/ \E action_id \in ActionIds, user \in Users,
             message \in BuiltMessages \cup OtherMessages :
            ac' = [ac EXCEPT ![a] =
                     [ActionIdle EXCEPT
                        !.pc = "dispatch",
                        !.action_id = action_id,
                        !.user_id = user,
                        !.case_id = BlockIdOf(message),
                        !.from_router = (message \in BuiltMessages),
                        !.built_for = message.thread_ts]]
       \/ \E exc \in ReceiveFailures :
            ac' = [ac EXCEPT ![a] =
                     [ActionIdle EXCEPT !.pc = "done",
                                        !.resp = InternalError,
                                        !.exc = exc]]
       \/ ac' = [ac EXCEPT ![a] =
                   [ActionIdle EXCEPT !.pc = "done", !.resp = Unauthorized]]
    /\ ops' = ops + 1
    /\ UNCHANGED << store, rt, sv >>

\* lines 480-504: components from os.environ, parse the interaction payload
ActionReceive(a) ==
    /\ ac[a].pc \in {"idle", "done"}
    /\ ops < MaxOps
    /\ \/ \E action_id \in ActionIds, user \in Users,
             message \in BuiltMessages \cup OtherMessages :
            ac' = [ac EXCEPT ![a] =
                     [ActionIdle EXCEPT
                        !.pc = "dispatch",
                        !.action_id = action_id,
                        !.user_id = user,
                        !.case_id = BlockIdOf(message),
                        !.from_router = (message \in BuiltMessages),
                        !.built_for = message.thread_ts]]
       \/ \E exc \in ReceiveFailures :
            ac' = [ac EXCEPT ![a] =
                     [ActionIdle EXCEPT !.pc = "done",
                                        !.resp = InternalError,
                                        !.exc = exc]]
    /\ ops' = ops + 1
    /\ UNCHANGED << store, rt, sv >>

\* lines 506-580
ActionDispatch(a) ==
    /\ ac[a].pc = "dispatch"
    /\ \E db \in (IF CallsStore(ac[a].action_id) THEN DbOutcomes ELSE {None}) :
         LET out == Dispatch(store, ac[a], db) IN
         /\ store' = out.store
         /\ ac' = [ac EXCEPT ![a].pc = "done",
                             ![a].user_id = Empty,
                             ![a].found = Row(store, ac[a].case_id).exists,
                             ![a].db = db,
                             ![a].resp = out.resp,
                             ![a].upd = out.upd,
                             ![a].reads = out.reads,
                             ![a].sent = out.sent,
                             ![a].modals = out.modals,
                             ![a].pdfs = out.pdfs,
                             ![a].exc = out.exc]
    /\ UNCHANGED << rt, ops, sv >>

(* ---------------- direct store operations ----------------------------- *)
ClientABC == << "", "ABC Corp" >>
CaseDatas ==
    { [case_id |-> c, client_id |-> ClientABC, status |-> s,
       client_data |-> << >>, tags |-> t, missing_fields |-> mf] :
        c \in CaseIds, s \in {"pending", "escalated"},
        t \in { <<"urgent">> }, mf \in { <<"budget">> } }

SaveCaseData ==
    /\ ops < MaxOps
    /\ \E case_data \in CaseDatas, db \in DbOutcomes :
         store' = save_case_data(store, case_data, db).store
    /\ ops' = ops + 1
    /\ UNCHANGED << rt, ac, sv >>

(* ---------------- the system ------------------------------------------ *)
\* The table is empty, or holds the row an earlier save_case_data call left.
InitialStores ==
    { [c \in CaseIds |-> NoRow] }
    \cup { UpsertRow([c \in CaseIds |-> NoRow], cd) :
              cd \in { d \in CaseDatas :
                         d.status = "pending" /\ d.case_id = "T1" } }

Init ==
    /\ store \in InitialStores
    /\ rt = [r \in RouterSlots |-> RouterIdle]
    /\ ac = [a \in ActionSlots |-> ActionIdle]
    /\ ops = 0
    /\ sv = << >>

Next ==
    \/ \E r \in RouterSlots :
         \/ RouterReceive(r)
         \/ RouterFetchHistorical(r)
         \/ RouterFetchState(r)
         \/ RouterInvokeAgent(r)
         \/ RouterPersist(r)
    \/ \E a \in ActionSlots :
         \/ ActionReceive(a)
         \/ ActionDispatch(a)
    \/ SaveCaseData

Spec == Init /\ [][Next]_vars

(* ---------------- one router invocation on any request ---------------- *)
\* The router handler applied once to requests drawn from wider sets than
\* Spec draws from: any configured secret, any header values, any signature
\* computed for some secret, timestamp and body.  The slot keeps what the
\* invocation was given.
SerialSlots == {1}
Secrets == {SigningSecret, "rotated"}
AnyTexts == {TextABC, TextHello}
\* '@h client: X Inc #t', '#t @h', and 'client: @h', where the first pattern
\* matches with a group of one blank that strip() turns into ''
TextHandleFirst ==
    << [kind |-> "at", val |-> "h"], [kind |-> "client", val |-> "X Inc"],
       [kind |-> "tag", val |-> "t"] >>
TextTagFirst == << [kind |-> "tag", val |-> "t"], [kind |-> "at", val |-> "h"] >>
TextBlankClient ==
    << [kind |-> "client", val |-> Empty], [kind |-> "at", val |-> "h"] >>
PatternTexts == {TextHandleFirst, TextTagFirst, TextBlankClient}
\* A decoded event_callback body that has no 'event' key: every
\* event.get(...) of transform_slack_message gives its default.
NoEventPayload ==
    [type |-> "event_callback", challenge |-> None, text |-> << >>,
     user |-> Empty, ts |-> None, thread_ts |-> None]
AnySeeds == {"s1", "s2"}
AnyEvents ==
    { [type |-> "url_verification", challenge |-> "challenge-1",
       text |-> << >>, user |-> Empty, ts |-> None, thread_ts |-> None] }
    \cup
    { [type |-> "event_callback", challenge |-> None,
       text |-> t, user |-> "U1", ts |-> ts, thread_ts |-> th] :
         t \in AnyTexts, ts \in CaseIds, th \in {None} \cup CaseIds }
    \cup
    { [type |-> "event_callback", challenge |-> None,
       text |-> t, user |-> "U1", ts |-> "T1", thread_ts |-> None] :
         t \in PatternTexts }
    \cup {NoEventPayload}
AnyBodies == { Dumps(e) : e \in AnyEvents } \cup {NotJson}
AnyTimestamps == {Empty, "1700000000", "1700000001"}
AnySignatures ==
    { << >> } \cup { ExpectedSignature(s, t, b) :
                        s \in Secrets, t \in AnyTimestamps, b \in AnyBodies }
AnyRequests ==
    { [body |-> b, headers |-> [timestamp |-> t, signature |-> s]] :
        b \in AnyBodies, t \in AnyTimestamps, s \in AnySignatures }

RouterReceiveAny(r) ==
    /\ rt[r].pc = "idle"
    /\ \E env \in Environments, secret \in Secrets, req \in AnyRequests,
          seed \in AnySeeds :
         rt' = [rt EXCEPT ![r] =
                  [Receive(env, secret, req, seed) EXCEPT
                     !.given = [env |-> env, secret |-> secret,
                                req |-> req, seed |-> seed]]]
    /\ ops' = ops + 1
    /\ UNCHANGED << store, ac, sv >>

NextRequests ==
    \E r \in SerialSlots :
        \/ RouterReceiveAny(r)
        \/ RouterFetchHistorical(r)
        \/ RouterFetchState(r)
        \/ RouterInvokeAgent(r)
        \/ RouterPersist(r)

SpecRequests == Init /\ [][NextRequests]_vars

(* ---------------- save_case_data on any case record ------------------- *)
\* save_case_data called with case records that may lack one of the keys;
\* sv keeps the call: its argument, the table before it, what it gave back.
Without(d, key) == [k \in DOMAIN d \ {key} |-> d[k]]
OmittableFields == {"status", "client_data", "tags", "missing_fields"}
AnyCaseDatas ==
    LET full == { [case_id |-> c, client_id |-> ClientABC, status |-> s,
                   client_data |-> << >>, tags |-> t,
                   missing_fields |-> << >>] :
                    c \in CaseIds, s \in {"pending", "escalated"},
                    t \in { << >>, <<"vip">> } }
    IN  full \cup { Without(d, key) : d \in full, key \in OmittableFields }

SaveCaseDataAny ==
    \E case_data \in AnyCaseDatas, db \in DbOutcomes :
        LET out == save_case_data(store, case_data, db) IN
        /\ store' = out.store
        /\ sv' = [case_data |-> case_data, db |-> db, before |-> store,
                  result |-> out.result]
    /\ UNCHANGED << rt, ac, ops >>

SpecSaves == Init /\ [][SaveCaseDataAny]_vars

(* ---------------- clicks racing with a message ----------------------- *)
\* One router invocation at a time and two action invocations, all
\* running concurrently: a step of one handler falls anywhere between the
\* steps of the others.
RaceSlots == {1, 2}

InitRace ==
    /\ store \in InitialStores
    /\ rt = [r \in RouterSlots |-> RouterIdle]
    /\ ac = [a \in RaceSlots |-> ActionIdle]
    /\ ops = 0
    /\ sv = << >>

NextRace ==
    \/ \E r \in SerialSlots :
         \/ RouterReceive(r)
         \/ RouterFetchHistorical(r)
         \/ RouterFetchState(r)
         \/ RouterInvokeAgent(r)
         \/ RouterPersist(r)
    \/ \E a \in RaceSlots :
         \/ ActionReceive(a)
         \/ ActionDispatch(a)

SpecRace == InitRace /\ [][NextRace]_vars

(* ====================================================================== *)
(* Properties                                                             *)
(* ====================================================================== *)
Range(seq) == { seq[i] : i \in 1..Len(seq) }
IsPrefix(s, t) == Len(s) <= Len(t) /\ SubSeq(t, 1, Len(s)) = s
Occurrences(x, seq) == Cardinality({ i \in 1..Len(seq) : seq[i] = x })

KnownActions ==
    {"confirm_correct", "adjust_conditions", "push_to_planner",
     "remind_later", "complete_data"}

\* Slot r takes its last step now and makes a persist_case_state call whose
\* statement the store executes.
PersistsNow(r) ==
    /\ rt[r].pc = "persist"
    /\ rt'[r].pc = "done"
    /\ rt'[r].persists # << >>
    /\ rt'[r].persists[1].db = "ok"

\* Slot r has finished with a persist_case_state call the store executed.
Persisted(r) ==
    /\ rt[r].pc = "done"
    /\ rt[r].persists # << >>
    /\ rt[r].persists[1].db = "ok"

\* Slot a dispatches now.
DispatchesNow(a) == ac[a].pc = "dispatch" /\ ac'[a].pc = "done"

(* C1: persistState upserts.  When the case has no row, the first           *)
(* persist_case_state(case_id, missing_fields, new_msg) creates it: a       *)
(* fetch_case_state right after returns that missing_fields and a           *)
(* conversation holding new_msg.                                            *)
C1_PersistUpserts ==
    [][\A r \in RouterSlots :
         (PersistsNow(r) /\ ~rt'[r].persists[1].existed)
         => LET call == rt'[r].persists[1]
                got == fetch_case_state(store', call.case_id, "ok")
            IN  /\ store'[call.case_id].exists
                /\ got.mf = call.missing_fields
                /\ Dumps(call.new_msg) \in Range(got.conv)]_vars

(* C2: the case id round-trips through the message.  A click on a message   *)
(* the router built for case c makes the action handler extract             *)
(* case_id = c from message.blocks[0].block_id.                             *)
C2_CaseIdRoundTrip ==
    \A a \in ActionSlots :
        (ac[a].pc # "idle" /\ ac[a].from_router)
        => ac[a].case_id = ac[a].built_for

(* C3: persistState is append-only.  Two calls on one case_id, m1 then m2,  *)
(* leave a conversation holding both, m1 before m2.                         *)
C3_AppendOnlyInCallOrder ==
    [][\A r1, r2 \in RouterSlots :
         (/\ r1 # r2
          /\ Persisted(r1)
          /\ PersistsNow(r2)
          /\ rt[r1].persists[1].case_id = rt'[r2].persists[1].case_id
          /\ rt[r1].persists[1].new_msg # rt'[r2].persists[1].new_msg)
         => LET conv == store'[rt'[r2].persists[1].case_id].conversation
            IN  \E i, j \in 1..Len(conv) :
                  /\ i < j
                  /\ conv[i] = Dumps(rt[r1].persists[1].new_msg)
                  /\ conv[j] = Dumps(rt'[r2].persists[1].new_msg)]_vars

(* C4: in every step of either handler or of a store operation, a case      *)
(* that exists keeps its row under its case_id, and its conversation        *)
(* after the step has the conversation before it as a prefix.               *)
C4_ConversationNeverShrinks ==
    [][\A c \in CaseIds :
         store[c].exists
         => /\ store'[c].exists
            /\ IsPrefix(store[c].conversation, store'[c].conversation)]_vars

\* A conversation has grown by two messages.
C4_Witness ==
    \E c \in CaseIds :
        /\ store[c].exists
        /\ Len(store[c].conversation) >= 2

(* C5: two invocations racing in persist_case_state on one existing case    *)
(* lose no update: whatever the interleaving, once both UPDATEs ran the     *)
(* conversation holds both new messages.                                    *)
C5_NoLostAppend ==
    \A r1, r2 \in RouterSlots :
        (/\ r1 # r2
         /\ Persisted(r1) /\ Persisted(r2)
         /\ rt[r1].persists[1].existed /\ rt[r2].persists[1].existed
         /\ rt[r1].persists[1].case_id = rt[r2].persists[1].case_id)
        => LET conv == store[rt[r1].persists[1].case_id].conversation
               m1 == Dumps(rt[r1].persists[1].new_msg)
               m2 == Dumps(rt[r2].persists[1].new_msg)
           IN  /\ m1 \in Range(conv) /\ m2 \in Range(conv)
               /\ m1 = m2 => Occurrences(m1, conv) >= 2

\* Both invocations read the conversation before either appended to it, and
\* both appends are there.
C5_Witness ==
    \E c \in CaseIds :
        /\ \A r \in RouterSlots :
             /\ Persisted(r)
             /\ rt[r].persists[1].existed
             /\ rt[r].persists[1].case_id = c
             /\ rt[r].persists[1].fetch_db = "ok"
             /\ rt[r].persists[1].seen = 0
        /\ rt[1].persists[1].new_msg # rt[2].persists[1].new_msg
        /\ Len(store[c].conversation) = 2

(* C6: each of the 5 known action_id values answers 200 when the case       *)
(* exists and its store call succeeds, and answers something other than     *)
(* 500 when the case is absent.                                             *)
C6_DispatchComplete ==
    \A a \in ActionSlots :
        (ac[a].pc = "done" /\ ac[a].action_id \in KnownActions
            /\ ac[a].db = "ok")
        => /\ ac[a].found => ac[a].resp.statusCode = 200
           /\ ~ac[a].found => ac[a].resp.statusCode # 500

(* C7: confirm_correct on an existing case calls update_case_status with    *)
(* 'confirmed' and the clicking user; afterwards the status is              *)
(* 'confirmed', one confirmation message was sent and the answer is 200.    *)
C7_ConfirmCorrect ==
    [][\A a \in ActionSlots :
         (/\ DispatchesNow(a)
          /\ ac[a].action_id = "confirm_correct"
          /\ Row(store, ac[a].case_id).exists
          /\ ac'[a].db = "ok")
         => /\ Len(ac'[a].upd) = 1
            /\ ac'[a].upd[1].case_id = ac[a].case_id
            /\ ac'[a].upd[1].status = "confirmed"
            /\ ac'[a].upd[1].user_id = ac[a].user_id
            /\ store'[ac[a].case_id].status = "confirmed"
            /\ store'[ac[a].case_id].updated_by = ac[a].user_id
            /\ ac'[a].sent = 1
            /\ ac'[a].resp.statusCode = 200]_vars

(* C8: an action_id outside the 5 known values answers 400 and leaves the   *)
(* store as it was: no read, no write, no confirmation message.             *)
C8_UnknownAction ==
    [][\A a \in ActionSlots :
         (DispatchesNow(a) /\ ac[a].action_id \notin KnownActions)
         => /\ ac'[a].resp.statusCode = 400
            /\ store' = store
            /\ ac'[a].reads = 0
            /\ ac'[a].upd = << >>
            /\ ac'[a].sent = 0
            /\ ac'[a].modals = 0
            /\ ac'[a].pdfs = 0]_vars

\* An unknown action was answered 400 while its case had a row.
C8_Witness ==
    \E a \in ActionSlots :
        /\ ac[a].pc = "done"
        /\ ac[a].action_id \notin KnownActions
        /\ ac[a].resp.statusCode = 400
        /\ Row(store, ac[a].case_id).exists

(* C9: every branch treats "case not found" as a normal outcome.  With no   *)
(* row for the case_id the branch does not raise and skips its side         *)
(* effect: no status change reported as successful, no confirmation         *)
(* message, no modal, no document.  confirm_correct included.               *)
C9_CaseNotFoundIsNormal ==
    \A a \in ActionSlots :
        (ac[a].pc = "done" /\ ac[a].action_id \in KnownActions
            /\ ~ac[a].found /\ ac[a].db = "ok")
        => /\ ac[a].resp.statusCode # 500
           /\ \A i \in 1..Len(ac[a].upd) :
                /\ ~ac[a].upd[i].result.raised
                /\ ac[a].upd[i].result.value = FALSE
           /\ ac[a].sent = 0
           /\ ac[a].modals = 0
           /\ ac[a].pdfs = 0

(* C10: update_case_status returns True when the write succeeds on an       *)
(* existing row; it returns False, without raising, when the row does not   *)
(* exist or the write fails, and then the stored status is unchanged.       *)
C10_UpdateStatusResult ==
    [][\A a \in ActionSlots :
         (DispatchesNow(a) /\ ac'[a].upd # << >>)
         => LET result == ac'[a].upd[1].result
                wrote == Row(store, ac[a].case_id).exists /\ ac'[a].db = "ok"
            IN  /\ ~result.raised
                /\ result.value = wrote
                /\ ~wrote => store' = store]_vars

(* C11: one interaction event makes at most one Case mutation and sends    *)
(* at most one confirmation message, whatever the action_id and whatever    *)
(* the store call's outcome.                                                *)
C11_AtMostOneMutation ==
    [][\A a \in ActionSlots :
         DispatchesNow(a)
         => /\ Cardinality({ c \in CaseIds : store'[c] # store[c] }) <= 1
            /\ Len(ac'[a].upd) <= 1
            /\ ac'[a].sent <= 1]_vars

\* A click has changed the status of one case while another case has a row.
C11_Witness ==
    \E a \in ActionSlots, c \in CaseIds :
        /\ ac[a].pc = "done"
        /\ Len(ac[a].upd) = 1
        /\ ac[a].found /\ ac[a].db = "ok"
        /\ store[ac[a].case_id].status = "confirmed"
        /\ c # ac[a].case_id
        /\ store[c].exists /\ store[c].status # "confirmed"

\* Slot r sends its request to the agent now.
InvokesNow(r) == rt[r].pc = "agent" /\ rt'[r].pc = "persist"

(* C12: when prior state was read for the case (stored missing_fields or    *)
(* conversation not empty), the request sent to the agent carries them as   *)
(* context.outstanding_fields and context.history, and its session token    *)
(* is the case_id; two requests of one thread carry the same session token. *)
C12_ResumedRequest ==
    [][\A r \in RouterSlots :
         (InvokesNow(r) /\ (rt[r].smf # << >> \/ rt[r].sconv # << >>))
         => LET sent == rt'[r].request IN
            /\ "context" \in DOMAIN sent.input
            /\ sent.input.context.outstanding_fields = rt[r].smf
            /\ sent.input.context.history = rt[r].sconv
            /\ sent.sessionId = << rt[r].payload.thread_ts >>
            /\ \A q \in RouterSlots :
                 (rt'[q].pc = "persist"
                    /\ rt'[q].payload.thread_ts = rt[r].payload.thread_ts)
                 => rt'[q].request.sessionId = sent.sessionId]_vars

\* Slot r has transformed the message it was given and not finished yet.
Transformed(r) ==
    /\ rt[r].given # << >>
    /\ rt[r].pc \in {"hist", "state", "agent", "persist"}

(* C13: the case_id derived for a message is its thread_ts when it has one  *)
(* and its own ts otherwise; the root message with ts = T derives the same  *)
(* case_id T as a reply with thread_ts = T, and the case_id is the same     *)
(* whatever the text of the message.                                        *)
C13_CaseIdIsThreadRoot ==
    \A r \in RouterSlots :
        Transformed(r)
        => LET e == Loads(rt[r].given.req.body)
               case_id == rt[r].payload.thread_ts
           IN  /\ case_id = IF e.thread_ts # None THEN e.thread_ts ELSE e.ts
               /\ \A root \in AnyEvents, seed \in AnySeeds :
                    (/\ root.type = "event_callback"
                     /\ root.thread_ts = None
                     /\ root.ts = case_id)
                    => transform_slack_message(root, seed).thread_ts = case_id
               /\ \A t \in AnyTexts, seed \in AnySeeds :
                    transform_slack_message([e EXCEPT !.text = t],
                                            seed).thread_ts = case_id

\* A reply to thread T1 sent at T2 is being handled under case_id T1.
C13_Witness ==
    \E r \in RouterSlots :
        /\ Transformed(r)
        /\ Loads(rt[r].given.req.body).ts = "T2"
        /\ Loads(rt[r].given.req.body).thread_ts = "T1"
        /\ rt[r].payload.thread_ts = "T1"
        /\ rt[r].pc = "persist"

\* Slot r holds what its invocation was given, and the handler was
\* configured: verify_signature has been called on the request.
Verified(r) == rt[r].given # << >> /\ rt[r].given.env = "configured"

\* The request given to slot r was turned away as unauthorized.
Rejected(r) == rt[r].pc = "done" /\ rt[r].resp.statusCode = 401

(* C14: a request whose signature header or timestamp header is missing,    *)
(* or whose signature is not the one computed for it, makes verify return   *)
(* false without raising, and the handler answers 401.                      *)
C14_BadSignatureIs401 ==
    \A r \in RouterSlots :
        LET g == rt[r].given IN
        (/\ Verified(r)
         /\ \/ g.req.headers.signature = << >>
            \/ g.req.headers.timestamp = Empty
            \/ g.req.headers.signature #
                  ExpectedSignature(g.secret, g.req.headers.timestamp,
                                    g.req.body))
        => /\ ~verify_signature(g.secret, g.req.body, g.req.headers)
           /\ Rejected(r)
           /\ rt[r].exc = None

\* A request without a timestamp header, carrying the signature computed
\* for the empty timestamp, was answered 401.
C14_Witness ==
    \E r \in RouterSlots :
        /\ Verified(r)
        /\ rt[r].given.req.headers.timestamp = Empty
        /\ rt[r].given.req.headers.signature =
              ExpectedSignature(rt[r].given.secret, Empty,
                                rt[r].given.req.body)
        /\ Rejected(r)

\* The signature of the request given to slot r was computed from a
\* (secret, timestamp, body) that differs in exactly one of the three from
\* the configured secret and the request's timestamp and body.
OneChanged(r) ==
    LET g == rt[r].given IN
    \E s \in Secrets, t \in AnyTimestamps, b \in AnyBodies :
        /\ g.req.headers.signature = ExpectedSignature(s, t, b)
        /\ Cardinality({ k \in {"secret", "timestamp", "body"} :
                           \/ k = "secret" /\ s # g.secret
                           \/ k = "timestamp" /\ t # g.req.headers.timestamp
                           \/ k = "body" /\ b # g.req.body }) = 1

\* The signature of the request given to slot r is the one computed from
\* the configured secret and the request's own timestamp and body.
RoundTrip(r) ==
    rt[r].given.req.headers.signature =
        ExpectedSignature(rt[r].given.secret,
                          rt[r].given.req.headers.timestamp,
                          rt[r].given.req.body)

(* C15, as stated: for all (secret, timestamp, body), verify accepts the    *)
(* signature 'v0=' + HMAC(secret, 'v0:' + timestamp + ':' + body) and       *)
(* rejects it when any one of body, timestamp or secret is changed.         *)
C15_SignatureRoundTripAll ==
    \A r \in RouterSlots :
        Verified(r)
        => /\ RoundTrip(r) => ~Rejected(r)
           /\ OneChanged(r) => Rejected(r)

(* C15, amended: for all (secret, timestamp, body) with a non-empty         *)
(* timestamp, verify accepts the signature computed for them; with an empty *)
(* timestamp it rejects that signature too; and it rejects a signature      *)
(* computed with any one of body, timestamp or secret changed.              *)
C15_SignatureRoundTrip ==
    \A r \in RouterSlots :
        Verified(r)
        => /\ (RoundTrip(r) /\ rt[r].given.req.headers.timestamp # Empty)
                => ~Rejected(r)
           /\ (RoundTrip(r) /\ rt[r].given.req.headers.timestamp = Empty)
                => Rejected(r)
           /\ OneChanged(r) => Rejected(r)

\* A request signed with the rotated secret, for the timestamp it carries,
\* passed verification under that secret and its message was transformed.
C15_Witness ==
    \E r \in RouterSlots :
        /\ Verified(r)
        /\ rt[r].given.secret = "rotated"
        /\ rt[r].given.req.headers.timestamp = "1700000001"
        /\ RoundTrip(r)
        /\ rt[r].pc = "hist"

(* C16: a url_verification request with a valid signature is answered 200   *)
(* with the challenge echoed verbatim, and nothing else is done: no         *)
(* transform, no store read or write, no agent invocation.  With an         *)
(* invalid signature it is answered 401 and the challenge is not echoed.    *)
C16_UrlVerification ==
    [][\A r \in RouterSlots :
         LET g == rt'[r].given IN
         (/\ rt[r].pc = "idle"
          /\ g # << >>
          /\ g.env = "configured"
          /\ IsJson(g.req.body)
          /\ Loads(g.req.body).type = "url_verification")
         => /\ rt'[r].pc = "done"
            /\ store' = store
            /\ rt'[r].payload = << >>
            /\ rt'[r].fetch_db = None
            /\ rt'[r].request = << >>
            /\ rt'[r].persists = << >>
            /\ IF /\ g.req.headers.timestamp # Empty
                  /\ g.req.headers.signature =
                        ExpectedSignature(g.secret, g.req.headers.timestamp,
                                          g.req.body)
               THEN rt'[r].resp =
                        Response(200, << Loads(g.req.body).challenge >>)
               ELSE /\ rt'[r].resp.statusCode = 401
                    /\ Loads(g.req.body).challenge
                          \notin Range(rt'[r].resp.body)]_vars

\* The handshake was answered with the challenge.
C16_Witness ==
    \E r \in RouterSlots :
        /\ Verified(r)
        /\ IsJson(rt[r].given.req.body)
        /\ Loads(rt[r].given.req.body).type = "url_verification"
        /\ rt[r].pc = "done"
        /\ rt[r].resp = Response(200, << "challenge-1" >>)

\* Slot r reads the stored state of its case now.
FetchesNow(r) == rt[r].pc = "state" /\ rt'[r].pc = "agent"

(* C17: fetch_case_state on a case_id that has no row returns ([], []) and  *)
(* raises nothing; it returns the same when the store read fails.           *)
C17_FetchStateEmpty ==
    [][\A r \in RouterSlots :
         (/\ FetchesNow(r)
          /\ \/ ~store[rt[r].payload.thread_ts].exists
             \/ rt'[r].fetch_db = "error")
         => /\ rt'[r].smf = << >>
            /\ rt'[r].sconv = << >>
            /\ rt'[r].exc = None]_vars

\* The state of a case without a row was read as empty, by a read that
\* succeeded, while another case had a stored checklist.
C17_Witness ==
    \E r \in RouterSlots, c \in CaseIds :
        /\ rt[r].pc = "agent"
        /\ rt[r].fetch_db = "ok"
        /\ ~store[rt[r].payload.thread_ts].exists
        /\ rt[r].smf = << >> /\ rt[r].sconv = << >>
        /\ store[c].exists /\ store[c].missing_fields # << >>

(* C18: persist_case_state(case_id, mf, msg) on an existing case leaves     *)
(* missing_fields equal to mf exactly: the stored value is replaced, not    *)
(* merged with it.                                                          *)
C18_MissingFieldsReplaced ==
    [][\A r \in RouterSlots :
         (PersistsNow(r) /\ rt'[r].persists[1].existed)
         => store'[rt'[r].persists[1].case_id].missing_fields
               = rt'[r].persists[1].missing_fields]_vars

\* A case saved with the checklist ['budget'] now holds ['timeline'].
C18_Witness ==
    \E r \in RouterSlots :
        /\ Persisted(r)
        /\ rt[r].persists[1].existed
        /\ rt[r].persists[1].missing_fields = << "timeline" >>
        /\ store[rt[r].persists[1].case_id].missing_fields = << "timeline" >>

(* C19: a router invocation that read no prior state and whose agent       *)
(* result has a non-empty checklist L makes exactly one persist_case_state  *)
(* call, with missing_fields = L and the thread's case_id; no invocation    *)
(* makes more than one call.                                                *)
C19_OnePersistCall ==
    [][\A r \in RouterSlots :
         /\ Len(rt'[r].persists) <= 1
         /\ (/\ rt[r].pc = "persist" /\ rt'[r].pc = "done"
             /\ rt[r].smf = << >> /\ rt[r].sconv = << >>
             /\ rt[r].gen.missing_fields_checklist # << >>)
            => /\ Len(rt'[r].persists) = 1
               /\ rt'[r].persists[1].missing_fields
                     = rt[r].gen.missing_fields_checklist
               /\ rt'[r].persists[1].case_id = rt[r].payload.thread_ts]_vars

\* An invocation that found no row for its thread made its one call.
C19_Witness ==
    \E r \in RouterSlots :
        /\ rt[r].pc = "done"
        /\ Len(rt[r].persists) = 1
        /\ rt[r].persists[1].fetch_db = "ok"
        /\ rt[r].persists[1].seen = 0
        /\ ~rt[r].persists[1].existed
        /\ rt[r].persists[1].missing_fields = << "budget" >>

\* The fixed body of a 500 answer.
GenericBody == << "error", "Internal server error" >>

\* A store call of the finished router invocation in slot r failed.
RouterStoreFailed(r) ==
    /\ rt[r].persists # << >>
    /\ \/ rt[r].persists[1].db = "error"
       \/ rt[r].persists[1].fetch_db = "error"

(* C20, as stated: both handlers always end with a response, and any        *)
(* exception raised inside an invocation (malformed payload, agent          *)
(* failure, store failure, missing configuration, failure inside a          *)
(* component) ends it with status 500 and the fixed generic body.           *)
C20_EveryFailureIs500 ==
    /\ \A r \in RouterSlots :
         rt[r].pc = "done"
         => /\ rt[r].resp # << >>
            /\ (rt[r].exc # None \/ RouterStoreFailed(r))
                 => (rt[r].resp.statusCode = 500
                       /\ rt[r].resp.body = GenericBody)
    /\ \A a \in ActionSlots :
         ac[a].pc = "done"
         => /\ ac[a].resp # << >>
            /\ (ac[a].exc # None \/ ac[a].db = "error")
                 => (ac[a].resp.statusCode = 500
                       /\ ac[a].resp.body = GenericBody)

(* C20, amended: both handlers always end with a response; every exception  *)
(* that reaches the handler boundary (missing configuration, malformed      *)
(* payload, agent failure, failure inside a component) ends the invocation  *)
(* with status 500 and the fixed generic body, and no 500 answer has        *)
(* another body.  A store failure in the router does not reach the          *)
(* boundary: the invocation that made the failing call answers 200.         *)
C20_BoundaryCatches ==
    /\ \A r \in RouterSlots :
         rt[r].pc = "done"
         => /\ rt[r].resp # << >>
            /\ rt[r].resp.statusCode \in {200, 401, 500}
            /\ rt[r].exc # None => rt[r].resp.statusCode = 500
            /\ rt[r].resp.statusCode = 500 => rt[r].resp.body = GenericBody
            /\ RouterStoreFailed(r)
                 => (rt[r].exc = None /\ rt[r].resp.statusCode = 200)
    /\ \A a \in ActionSlots :
         ac[a].pc = "done"
         => /\ ac[a].resp # << >>
            /\ ac[a].resp.statusCode \in {200, 400, 500}
            /\ ac[a].exc # None => ac[a].resp.statusCode = 500
            /\ ac[a].resp.statusCode = 500 => ac[a].resp.body = GenericBody

\* A body that is not JSON ended a router invocation, and an exception
\* inside a branch ended an action invocation, each with the generic 500.
C20_Witness ==
    \E r \in RouterSlots, a \in ActionSlots :
        /\ rt[r].pc = "done" /\ rt[r].exc = "JSONDecodeError"
        /\ rt[r].resp = Response(500, GenericBody)
        /\ ac[a].pc = "done" /\ ac[a].exc = "Exception"
        /\ ac[a].resp = Response(500, GenericBody)

(* C21: for identical message text two transform calls give the same        *)
(* client_id, also when the calls are made in different handler processes   *)
(* (each process has its own hash seed); text matching no pattern gets a    *)
(* fallback client_<n> that is the same for identical text.                 *)
C21_TransformDeterministic ==
    \A r \in RouterSlots :
        Transformed(r)
        => \A seed \in AnySeeds :
              transform_slack_message(Loads(rt[r].given.req.body),
                                      seed).client_id
                  = rt[r].payload.client_id

(* C22: the three patterns are tried in the order client:, @, # and the     *)
(* first pattern that matches gives the client_id: the value after the      *)
(* client: marker when the text has one, else the first handle, else the    *)
(* first tag.                                                               *)
C22_FirstMatchWins ==
    \A r \in RouterSlots :
        Transformed(r)
        => LET text == rt[r].payload.text
               has(kind) == \E i \in 1..Len(text) : text[i].kind = kind
               first(kind) ==
                   text[CHOOSE i \in 1..Len(text) :
                          /\ text[i].kind = kind
                          /\ \A j \in 1..(i - 1) : text[j].kind # kind].val
               client_id == rt[r].payload.client_id
           IN  /\ has("client") => client_id = << "", first("client") >>
               /\ (~has("client") /\ has("at"))
                     => client_id = << "", first("at") >>
               /\ (~has("client") /\ ~has("at") /\ has("tag"))
                     => client_id = << "", first("tag") >>

(* C26: a verified event_callback payload with no event object raises a     *)
(* transform error that ends the invocation: the slot is finished with an   *)
(* exception, and no store operation or agent invocation is made for it.    *)
C26_NoEventRaises ==
    \A r \in RouterSlots :
        (/\ rt[r].given # << >>
         /\ rt[r].given.env = "configured"
         /\ verify_signature(rt[r].given.secret, rt[r].given.req.body,
                             rt[r].given.req.headers)
         /\ rt[r].given.req.body = Dumps(NoEventPayload))
        => /\ rt[r].pc = "done"
           /\ rt[r].exc # None
           /\ rt[r].fetch_db = None
           /\ rt[r].request = << >>

(* C23: a decodable agent response gives, for each of the five result       *)
(* fields, the value the response carries or an empty sequence/mapping when *)
(* the response lacks it; a response that does not decode raises to the     *)
(* handler, which answers 500: it is not read as an empty result.           *)
C23_DefensiveParsing ==
    \A r \in RouterSlots :
        /\ rt[r].pc = "persist"
           => /\ IsJson(rt[r].completion)
              /\ LET body == Loads(rt[r].completion)
                      field(key) == IF key \in DOMAIN body THEN body[key]
                                    ELSE << >>
                  IN /\ rt[r].gen.missing_fields_checklist
                          = field("missing_fields")
                     /\ rt[r].gen.competitive_analysis
                          = field("competitive_analysis")
                     /\ rt[r].gen.recommended_tags = field("recommended_tags")
                     /\ rt[r].gen.citations = field("citations")
                     /\ rt[r].gen.follow_up_questions
                          = field("follow_up_questions")
        /\ (rt[r].completion # << >> /\ ~IsJson(rt[r].completion))
           => /\ rt[r].pc = "done"
              /\ rt[r].exc = "JSONDecodeError"
              /\ rt[r].resp.statusCode = 500
              /\ rt[r].gen = << >>
              /\ rt[r].persists = << >>

\* One invocation has ended in 500 on a completion that is not JSON while
\* another holds the content of a response that has some fields and lacks
\* others.
C23_Witness ==
    \E r, q \in RouterSlots :
        /\ rt[r].pc = "done"
        /\ rt[r].completion = NotJson
        /\ rt[r].resp.statusCode = 500
        /\ rt[q].pc = "persist"
        /\ rt[q].gen.citations = << "doc-1" >>
        /\ rt[q].gen.recommended_tags = << >>

(* C24: the actions adjust_conditions, complete_data, remind_later and      *)
(* push_to_planner never change the store: whatever the case and the        *)
(* outcome of the store call, every row is the same after the dispatch as   *)
(* before it.                                                               *)
ReadOnlyActions ==
    {"adjust_conditions", "complete_data", "remind_later", "push_to_planner"}
C24_ReadOnlyActions ==
    [][\A a \in ActionSlots :
          (DispatchesNow(a) /\ ac[a].action_id \in ReadOnlyActions)
          => store' = store]_vars

\* remind_later has been dispatched for a case that has a row, and its
\* store call went through.
C24_Witness ==
    \E a \in ActionSlots :
        /\ ac[a].pc = "done"
        /\ ac[a].action_id = "remind_later"
        /\ ac[a].found
        /\ ac[a].db = "ok"
        /\ ac[a].reads = 1

(* C25: save_case_data is an upsert in which a field the record does not    *)
(* supply keeps its stored value: the call returns a bool, it does not      *)
(* raise, and every column of the case whose key the record omits is the    *)
(* same after the call as before it.                                        *)
C25_SaveKeepsOmitted ==
    sv # << >>
    => /\ ~sv.result.raised
       /\ sv.result.value \in BOOLEAN
       /\ \A key \in OmittableFields \ DOMAIN sv.case_data :
             store[sv.case_data.case_id][key]
                 = sv.before[sv.case_data.case_id][key]

(* C27: the steps of a router invocation come in the order signature        *)
(* verification, transform, fetch_historical_cases, fetch_case_state, agent *)
(* invocation, persist_case_state, response composition: a store read is    *)
(* made only for a verified and transformed message, the agent is invoked   *)
(* only after both reads, the store is written only after the agent has     *)
(* answered, and the message is composed last.                              *)
StepOrder ==
    { << "idle", "hist" >>, << "hist", "state" >>, << "state", "agent" >>,
      << "agent", "persist" >>, << "persist", "done" >>,
      << "idle", "done" >>, << "agent", "done" >> }
C27_StepOrder ==
    [][\A r \in RouterSlots :
          rt'[r] # rt[r]
          => /\ << rt[r].pc, rt'[r].pc >> \in StepOrder
             /\ rt'[r].pc = "hist"
                => /\ verify_signature(rt'[r].given.secret,
                                       rt'[r].given.req.body,
                                       rt'[r].given.req.headers)
                   /\ rt'[r].payload # << >>
             /\ (/\ rt'[r].pc # "done"
                 /\ \/ rt'[r].hist # rt[r].hist
                    \/ rt'[r].fetch_db # rt[r].fetch_db)
                => /\ rt[r].pc \in {"hist", "state"}
                   /\ rt[r].payload # << >>
             /\ (rt'[r].request # << >> /\ rt'[r].request # rt[r].request)
                => /\ rt[r].fetch_db # None
                   /\ rt[r].persists = << >>
             /\ store' # store
                => /\ rt[r].request # << >>
                   /\ rt[r].gen # << >>
                   /\ rt[r].message = << >>
             /\ (rt'[r].message # << >> /\ rt'[r].message # rt[r].message)
                => /\ rt[r].pc = "persist"
                   /\ rt'[r].pc = "done"
                   /\ rt'[r].resp.statusCode = 200]_vars

\* An invocation has gone through every step: it has written the checklist
\* to a row that was there and composed its message.
C27_Witness ==
    \E r \in RouterSlots :
        /\ rt[r].pc = "done"
        /\ rt[r].message # << >>
        /\ rt[r].persists # << >>
        /\ rt[r].persists[1].existed
        /\ rt[r].persists[1].db = "ok"
        /\ rt[r].persists[1].fetch_db = "ok"

(* C28: a store operation that fails gives its caller a boolean or an       *)
(* absent value, not an exception: a router invocation whose fetch or       *)
(* persist failed still answers 200, and an action invocation whose         *)
(* update_case_status or get_case_data call failed does not answer 500.     *)
C28_StoreFailuresAbsorbed ==
    /\ \A r \in RouterSlots :
          (/\ rt[r].pc = "done"
           /\ rt[r].persists # << >>
           /\ \/ rt[r].persists[1].db = "error"
              \/ rt[r].persists[1].fetch_db = "error")
          => rt[r].resp.statusCode = 200 /\ rt[r].exc = None
    /\ \A a \in ActionSlots :
          (/\ ac[a].pc = "done"
           /\ CallsStore(ac[a].action_id)
           /\ ac[a].db = "error")
          => ac[a].resp.statusCode # 500 /\ ac[a].exc = None

(* C30: a router invocation whose signature check fails reads nothing from  *)
(* the store, writes nothing to it and does not invoke the agent: the store *)
(* is unchanged and the invocation is over with the 401 response as its     *)
(* only effect.                                                             *)
C30_RejectedDoesNothing ==
    [][\A r \in RouterSlots :
          (/\ rt[r].pc = "idle"
           /\ rt'[r].pc # "idle"
           /\ rt'[r].given.env = "configured"
           /\ ~verify_signature(rt'[r].given.secret, rt'[r].given.req.body,
                                rt'[r].given.req.headers))
          => /\ store' = store
             /\ rt'[r] = [RouterIdle EXCEPT !.pc = "done",
                                            !.resp = Unauthorized,
                                            !.given = rt'[r].given]]_vars

\* A message for a case that has a row, signed with another secret than
\* the handler's, has been turned away.
C30_Witness ==
    \E r \in RouterSlots :
        /\ Rejected(r)
        /\ Verified(r)
        /\ rt[r].given.req.headers.timestamp # Empty
        /\ rt[r].given.req.headers.signature
              = ExpectedSignature("rotated", rt[r].given.req.headers.timestamp,
                                  rt[r].given.req.body)
        /\ rt[r].given.secret = SigningSecret
        /\ IsJson(rt[r].given.req.body)
        /\ Loads(rt[r].given.req.body).ts = "T1"
        /\ store["T1"].exists

(* C29: confirm_correct clicks and a message event for the same existing    *)
(* case run concurrently.  When these invocations are all that ran and      *)
(* their statements went through, then under every interleaving the case    *)
(* has status 'confirmed', its actor is one of the users who clicked (the   *)
(* clicking user when there is one click), and when the router wrote, the   *)
(* new message is in the conversation and missing_fields is the checklist   *)
(* the router wrote.                                                        *)
ConfirmedBy(a, c) ==
    /\ ac[a].pc = "done"
    /\ ac[a].action_id = "confirm_correct"
    /\ ac[a].case_id = c
    /\ ac[a].found
    /\ ac[a].db = "ok"
WrittenBy(r, c) ==
    /\ Persisted(r)
    /\ rt[r].persists[1].case_id = c
    /\ rt[r].persists[1].existed
    /\ rt[r].persists[1].db = "ok"
C29_LastWriterWinsPerGroup ==
    \A c \in CaseIds :
        LET clicks == { a \in DOMAIN ac : ConfirmedBy(a, c) }
            writes == { r \in RouterSlots : WrittenBy(r, c) }
        IN  (/\ clicks # {}
             /\ ops = Cardinality(clicks) + Cardinality(writes))
            => /\ store[c].status = "confirmed"
               /\ store[c].updated_by
                     \in { ac[a].upd[1].user_id : a \in clicks }
               /\ \A r \in writes :
                     /\ Dumps(rt[r].persists[1].new_msg)
                           \in Range(store[c].conversation)
                     /\ store[c].missing_fields
                           = rt[r].persists[1].missing_fields

\* A click by U2 and a message for case T1 have both gone through, and
\* nothing else ran.
C29_Witness ==
    \E a \in DOMAIN ac, r \in RouterSlots :
        /\ ConfirmedBy(a, "T1")
        /\ WrittenBy(r, "T1")
        /\ ac[a].upd[1].user_id = "U2"
        /\ ops = 2
        /\ store["T1"].status = "confirmed"
        /\ store["T1"].updated_by = "U2"
        /\ store["T1"].missing_fields = rt[r].persists[1].missing_fields

(* C31: when the agent invocation fails, because the service call raises    *)
(* or because its completion does not decode, the router invocation         *)
(* answers 500 and has not touched the store: no step of the invocation up  *)
(* to the failure changes a row, persist_case_state is not called and no    *)
(* message is composed.                                                     *)
AgentFailures == {"AgentError", "JSONDecodeError"}
C31_AgentFailureLeavesStore ==
    [][\A r \in RouterSlots :
          /\ (rt'[r] # rt[r] /\ rt[r].pc \in {"idle", "hist", "state", "agent"})
             => store' = store
          /\ (rt[r].pc = "agent" /\ rt'[r].pc = "done")
             => /\ rt'[r].exc \in AgentFailures
                /\ rt'[r].resp.statusCode = 500
                /\ rt'[r].persists = << >>
                /\ rt'[r].message = << >>]_vars

\* The agent gave a completion that does not decode to an invocation for
\* a case that has a row, which ended in 500 with the row's conversation
\* still empty.
C31_Witness ==
    \E r \in RouterSlots :
        /\ rt[r].pc = "done"
        /\ rt[r].exc = "JSONDecodeError"
        /\ rt[r].completion = NotJson
        /\ rt[r].resp.statusCode = 500
        /\ store["T1"].exists
        /\ store["T1"].conversation = << >>

(* C32: a router invocation whose agent result has an empty checklist does  *)
(* not write the case: the message is not appended to the conversation and  *)
(* the stored missing_fields stay as they are, so a case that has           *)
(* outstanding fields still gives them to the next fetch_case_state, which  *)
(* takes the resumed branch.                                                *)
C32_EmptyChecklistKeepsCase ==
    [][\A r \in RouterSlots :
          (/\ rt[r].pc = "persist"
           /\ rt'[r].pc = "done"
           /\ rt[r].gen.missing_fields_checklist = << >>)
          => LET c == rt[r].payload.thread_ts IN
             /\ store' = store
             /\ rt'[r].persists = << >>
             /\ rt'[r].resp.statusCode = 200
             /\ Row(store, c).missing_fields # << >>
                => fetch_case_state(store', c, "ok").mf
                      = Row(store, c).missing_fields]_vars

\* An invocation for a case with outstanding fields has ended without a
\* persist_case_state call, and the fields are still stored.
C32_Witness ==
    \E r \in RouterSlots :
        /\ rt[r].pc = "done"
        /\ rt[r].message # << >>
        /\ rt[r].persists = << >>
        /\ rt[r].message.thread_ts = "T1"
        /\ store["T1"].exists
        /\ store["T1"].missing_fields = << "budget" >>
        /\ store["T1"].conversation = << >>

(* C33: the only status a handler writes is 'confirmed', and only the       *)
(* confirm_correct branch writes it: whenever a step of either handler      *)
(* changes the status of a case, the step is the dispatch of a              *)
(* confirm_correct click on that case and the new status is 'confirmed'.    *)
(* So the router never changes a status, and no run of the handlers takes a *)
(* case to 'adjusted' or 'escalated', or from 'confirmed' back to           *)
(* 'pending'.                                                               *)
C33_OnlyConfirmedIsWritten ==
    [][\A c \in CaseIds :
          store'[c].status # store[c].status
          => /\ store'[c].status = "confirmed"
             /\ rt' = rt
             /\ \E a \in DOMAIN ac :
                   /\ DispatchesNow(a)
                   /\ ac[a].action_id = "confirm_correct"
                   /\ ac[a].case_id = c]_vars

\* A pending case was confirmed by a click while the form of
\* adjust_conditions was opened for it by another click.
C33_Witness ==
    \E a, b \in DOMAIN ac :
        /\ ConfirmedBy(a, "T1")
        /\ ac[b].pc = "done"
        /\ ac[b].action_id = "adjust_conditions"
        /\ ac[b].case_id = "T1"
        /\ ac[b].found
        /\ ac[b].db = "ok"
        /\ store["T1"].status = "confirmed"

(* C34: in the confirm_correct branch the confirmation message is sent only *)
(* after update_case_status has returned true; when the update fails, the   *)
(* method returns false, no confirmation message is sent, the status is     *)
(* unchanged and the handler answers 200 'Action processed'.                *)
C34_ConfirmAfterUpdate ==
    [][\A a \in ActionSlots :
          (DispatchesNow(a) /\ ac[a].action_id = "confirm_correct")
          => /\ ac'[a].sent > 0
                => ac'[a].upd[1].result = Returned(TRUE)
             /\ ac'[a].db = "error"
                => /\ ac'[a].upd[1].result = Returned(FALSE)
                   /\ ac'[a].sent = 0
                   /\ store' = store
                   /\ ac'[a].resp = ActionProcessed]_vars

(* C35: the action handler has no authentication step: it never answers    *)
(* 401, every interaction payload it can parse reaches the dispatch table,  *)
(* and a handler that has finished answered 200, 400 or 500.                *)
C35_ActionsNeverUnauthorized ==
    \A a \in ActionSlots :
        /\ ac[a].resp # << >> => ac[a].resp.statusCode \in {200, 400, 500}
        /\ (ac[a].pc = "done" /\ ac[a].exc \notin ReceiveFailures)
           => ac[a].action_id \in ActionIds

\* A confirm_correct click has written the status of a case.
C35_Witness ==
    \E a \in ActionSlots :
        /\ ac[a].pc = "done"
        /\ ac[a].action_id = "confirm_correct"
        /\ ac[a].upd # << >>
        /\ ac[a].found
        /\ ac[a].db = "ok"
        /\ store[ac[a].case_id].status = "confirmed"
        /\ store[ac[a].case_id].updated_by = ac[a].upd[1].user_id

(* C36: confirm_correct on a case that is already confirmed leaves its      *)
(* status 'confirmed' and changes nothing of the row but the actor, and     *)
(* the delivery sends its own confirmation message.                         *)
C36_ConfirmIdempotent ==
    [][\A a \in ActionSlots :
          (/\ DispatchesNow(a)
           /\ ac[a].action_id = "confirm_correct"
           /\ Row(store, ac[a].case_id).exists
           /\ Row(store, ac[a].case_id).status = "confirmed"
           /\ ac'[a].db = "ok")
          => /\ store' = [store EXCEPT
                            ![ac[a].case_id].updated_by = ac[a].user_id]
             /\ ac'[a].sent = 1]_vars

====
